---- MODULE Spec2Model ----
(***************************************************************************)
(* Model of the emissions allocation engine of NGMetallAPI                 *)
(* (src/NGMetallAPI.py): index_data and calculate_recycling_report with    *)
(* the helpers it calls.                                                   *)
(*                                                                         *)
(* Numbers.  The program computes with Python floats.  The model computes  *)
(* with exact rationals <<numerator, denominator>> in lowest terms with a  *)
(* positive denominator, so equalities are those of real arithmetic;       *)
(* rounding of IEEE doubles is not modelled.                               *)
(*                                                                         *)
(* Control.  calculate_recycling_report is one pass per invoice: the for   *)
(* loop takes the next invoice of its argument (ProcessInvoice or          *)
(* SkipInvoice) until the list is exhausted (Return).  The variable        *)
(* invoices holds the part of the argument iterated so far.                *)
(*                                                                         *)
(* origin is a history variable: for each element of reports, the          *)
(* positions of the three nested loops (invoice, rule, distribution entry; *)
(* 0 for a row of the else branch) at the reports.append that made it.     *)
(* The local total_output_volume (line 184) is never read and is left out. *)
(***************************************************************************)
EXTENDS Integers, Sequences, FiniteSets, TLC

\* ------------------------------------------------------------------ bounds
\* Longest MaterialTransformation table drawn in Init.
MaxRules == 2
\* Longest invoice list handed to calculate_recycling_report.
MaxInvoices == 2

\* -------------------------------------------------------- exact arithmetic
Abs(n) == IF n < 0 THEN -n ELSE n

RECURSIVE GCD(_, _)
GCD(a, b) == IF b = 0 THEN a ELSE GCD(b, a % b)

\* n/d in lowest terms, d # 0.
Rat(n, d) ==
    LET s == IF d < 0 THEN -1 ELSE 1
        g == GCD(Abs(n), Abs(d))
    IN  <<(s * n) \div g, (s * d) \div g>>

Zero == Rat(0, 1)
RMul(a, b) == Rat(a[1] * b[1], a[2] * b[2])
RDiv(a, b) == Rat(a[1] * b[2], a[2] * b[1])
RAdd(a, b) == Rat(a[1] * b[2] + b[1] * a[2], a[2] * b[2])
RLess(a, b) == a[1] * b[2] < b[1] * a[2]

\* Python's sum() over the values of a dict, starting from 0.
RECURSIVE SumDict(_, _)
SumDict(d, keys) ==
    IF keys = {} THEN Zero
    ELSE LET k == CHOOSE x \in keys : TRUE
         IN  RAdd(d[k], SumDict(d, keys \ {k}))

\* dict.get(key, default)
Get(d, key, default) == IF key \in DOMAIN d THEN d[key] ELSE default

SeqsUpTo(S, n) == UNION {[1..k -> S] : k \in 0..n}

\* The greatest element of a non-empty set of list positions.
Max(S) == CHOOSE i \in S : \A j \in S : j <= i

\* ------------------------------------------------------------ input family
MaterialTransformation(f, i, o, p, c) ==
    [facility_id |-> f, input_material_code |-> i, output_material_code |-> o,
     percentage |-> p, category |-> c]

\* The MaterialTransformation rows the tables of Init are drawn from.
RuleSet ==
    { MaterialTransformation("F001", "M001", "M002", Rat(19, 20), "Material Recycling"),
      MaterialTransformation("F001", "M001", "M003", Rat(1, 20), "Losses"),
      MaterialTransformation("F001", "M001", "M002", Rat(1, 20), "Energy Recycling"),
      MaterialTransformation("F001", "M001", "M003", Rat(0, 1), "Losses"),
      MaterialTransformation("F001", "M001", "M003", Rat(-1, 20), "Material Recycling"),
      MaterialTransformation("F002", "M001", "M002", Rat(1, 1), "Losses") }

EstimatedOutputDistributionGeo(o, c, p) ==
    [output_material_code |-> o, destination_country |-> c, percentage |-> p]

\* The EstimatedOutputDistributionGeo tables Init chooses from.
DistTables ==
    { <<EstimatedOutputDistributionGeo("M002", "Norway", Rat(1, 1))>>,
      <<EstimatedOutputDistributionGeo("M002", "Norway", Rat(1, 2)),
        EstimatedOutputDistributionGeo("M003", "Norway", Rat(1, 1)),
        EstimatedOutputDistributionGeo("M002", "Sweden", Rat(1, 2))>>,
      <<EstimatedOutputDistributionGeo("M002", "Sweden", Rat(3, 10)),
        EstimatedOutputDistributionGeo("M002", "Norway", Rat(7, 10))>> }

AverageDownstreamDistances(f, c, d, m) ==
    [facility_id |-> f, destination_country |-> c, average_distance |-> d,
     mode_of_transport |-> m]

\* The AverageDownstreamDistances tables Init chooses from.
DownTables ==
    { <<AverageDownstreamDistances("F001", "Norway", Rat(500, 1), "Truck"),
        AverageDownstreamDistances("F001", "Sweden", Rat(800, 1), "Rail")>>,
      <<AverageDownstreamDistances("F001", "Norway", Rat(500, 1), "Truck"),
        AverageDownstreamDistances("F002", "Sweden", Rat(800, 1), "Rail")>> }

\* EmissionFactorProcessing table.
EmissionFactorRows ==
    << [facility_id |-> "F001", material_code |-> "M001", emission_factor |-> Rat(39, 2)] >>

\* TransportEmissionFactor table ("Rail" has no entry).
TransportEmissionFactorRows ==
    << [mode_of_transport |-> "Truck", emission_factor |-> Rat(1, 20)] >>

\* AverageUpstreamDistances table ("Supplier002" has no entry).
UpstreamRows ==
    << [customer_id |-> "Supplier001", facility_id |-> "F001",
        inbound_average_distance |-> Rat(500, 1), inbound_mode_of_transport |-> "Truck"] >>

\* VirginMaterialProductionBenchmark table ("M003" has no entry).
VirginBenchmarkRows ==
    << [material_code |-> "M002", emissions |-> Rat(3056, 1)] >>

Invoice(id, cust, f, m, v) ==
    [invoice_id |-> id, customer_id |-> cust, delivery_date |-> "2023-10-01",
     facility_id |-> f, material_code |-> m, volume |-> v]

\* The invoices a batch is drawn from.
InvoiceSet ==
    { Invoice("INV001", "Supplier001", "F001", "M001", Rat(6000, 1)),
      Invoice("INV002", "Supplier002", "F001", "M001", Rat(-6000, 1)),
      Invoice("INV003", "Supplier001", "F002", "M001", Rat(6000, 1)) }

\* ------------------------------------------------------------------- state
VARIABLES
    material_transformations,        \* self.material_transformations
    output_distribution,             \* self.output_distribution
    downstream_distances,            \* self.downstream_distances
    material_transformation_index,   \* (facility, input) -> rules, in order
    emission_factor_index,           \* (facility, material) -> factor
    transport_emission_factor_index, \* mode -> factor
    upstream_distance_index,         \* (customer, facility) -> row
    downstream_distance_index,       \* (facility, country) -> row
    output_distribution_index,       \* output material -> entries, in order
    virgin_benchmark_index,          \* material -> emissions
    pc,                              \* "idle", "loop" or "done"
    invoices,                        \* the invoices the loop has taken so far
    reports,                         \* the list being built and returned
    origin,                          \* per report row: <<invoice, mt, od>> loop positions
    transformations,                 \* locals of the loop body, as last assigned
    output_volumes,
    processing_emissions,
    processing_emissions_allocated,
    inbound_emissions,
    inbound_emissions_allocated

refs == <<material_transformations, output_distribution, downstream_distances>>
indexes == <<material_transformation_index, emission_factor_index,
             transport_emission_factor_index, upstream_distance_index,
             downstream_distance_index, output_distribution_index,
             virgin_benchmark_index>>
locals == <<transformations, output_volumes, processing_emissions,
            processing_emissions_allocated, inbound_emissions,
            inbound_emissions_allocated>>
vars == <<refs, indexes, pc, invoices, reports, origin, locals>>

\* -------------------------------------------------------------- index_data
\* A slip of index_data: insert(0, mt) in place of append(mt), so that the rows
\* of each key come out in reverse table order.
index_material_transformations_prepend(rows) ==
    [k \in {<<rows[i].facility_id, rows[i].input_material_code>> : i \in DOMAIN rows} |->
        LET Same(r) == <<r.facility_id, r.input_material_code>> = k
            kept == SelectSeq(rows, Same)
        IN  [n \in 1..Len(kept) |-> kept[Len(kept) + 1 - n]]]

\* setdefault(key, []).append(mt): the rows of each (facility, input) key, in
\* table order.
index_material_transformations(rows) ==
    [k \in {<<rows[i].facility_id, rows[i].input_material_code>> : i \in DOMAIN rows} |->
        LET Same(r) == <<r.facility_id, r.input_material_code>> = k
        IN  SelectSeq(rows, Same)]

\* index[key] = ef.emission_factor: the last row of a key stays.
index_emission_factors(rows) ==
    [k \in {<<rows[i].facility_id, rows[i].material_code>> : i \in DOMAIN rows} |->
        rows[Max({i \in DOMAIN rows :
                    <<rows[i].facility_id, rows[i].material_code>> = k})].emission_factor]

index_transport_emission_factors(rows) ==
    [k \in {rows[i].mode_of_transport : i \in DOMAIN rows} |->
        rows[Max({i \in DOMAIN rows : rows[i].mode_of_transport = k})].emission_factor]

index_upstream_distances(rows) ==
    [k \in {<<rows[i].customer_id, rows[i].facility_id>> : i \in DOMAIN rows} |->
        rows[Max({i \in DOMAIN rows :
                    <<rows[i].customer_id, rows[i].facility_id>> = k})]]

index_downstream_distances(rows) ==
    [k \in {<<rows[i].facility_id, rows[i].destination_country>> : i \in DOMAIN rows} |->
        rows[Max({i \in DOMAIN rows :
                    <<rows[i].facility_id, rows[i].destination_country>> = k})]]

\* A slip of index_data: index[code] = [od] in place of setdefault(code,
\* []).append(od), so that only the last entry of each output code stays.
index_output_distribution_last(rows) ==
    [k \in {rows[i].output_material_code : i \in DOMAIN rows} |->
        <<rows[Max({i \in DOMAIN rows : rows[i].output_material_code = k})]>>]

index_output_distribution(rows) ==
    [k \in {rows[i].output_material_code : i \in DOMAIN rows} |->
        LET Same(r) == r.output_material_code = k
        IN  SelectSeq(rows, Same)]

index_virgin_benchmarks(rows) ==
    [k \in {rows[i].material_code : i \in DOMAIN rows} |->
        rows[Max({i \in DOMAIN rows : rows[i].material_code = k})].emissions]

\* ------------------------------------------------------------------ helpers
\* A slip of get_material_transformations: the rules are looked up by input
\* material alone, whatever the facility.
get_material_transformations_any_facility(facility_id, input_material_code) ==
    LET keys == {k \in DOMAIN material_transformation_index : k[2] = input_material_code}
    IN  IF keys = {} THEN <<>>
        ELSE material_transformation_index[CHOOSE k \in keys : TRUE]

get_material_transformations(facility_id, input_material_code) ==
    Get(material_transformation_index, <<facility_id, input_material_code>>, <<>>)

\* output_volumes[mt.output_material_code] = volume_delivered * mt.percentage,
\* rule after rule: one entry per output code, holding its last rule's volume.
\* A slip of calculate_output_volumes: output_volumes[code] += ..., so that the
\* volumes of the rules sharing an output code add up.
RECURSIVE calculate_output_volumes_accumulate(_, _)
calculate_output_volumes_accumulate(volume_delivered, mts) ==
    IF mts = <<>> THEN <<>>
    ELSE LET before == calculate_output_volumes_accumulate(volume_delivered,
                                                           SubSeq(mts, 1, Len(mts) - 1))
             mt == mts[Len(mts)]
             code == mt.output_material_code
         IN  [c \in DOMAIN before \cup {code} |->
                 IF c = code
                 THEN RAdd(Get(before, code, Zero),
                           RMul(volume_delivered, mt.percentage))
                 ELSE before[c]]

\* A slip of calculate_output_volumes: the yield is read as a percentage.
calculate_output_volumes_percent(volume_delivered, mts) ==
    [code \in {mts[i].output_material_code : i \in DOMAIN mts} |->
        RDiv(RMul(volume_delivered,
                  mts[Max({i \in DOMAIN mts :
                             mts[i].output_material_code = code})].percentage),
             Rat(100, 1))]

calculate_output_volumes(volume_delivered, mts) ==
    [code \in {mts[i].output_material_code : i \in DOMAIN mts} |->
        RMul(volume_delivered,
             mts[Max({i \in DOMAIN mts : mts[i].output_material_code = code})].percentage)]

calculate_processing_emissions(facility_id, material_code, volume_delivered) ==
    RMul(volume_delivered,
         Get(emission_factor_index, <<facility_id, material_code>>, Zero))

\* A slip of allocate_emissions: every output code is given the whole total.
allocate_emissions_whole(total_emissions, volumes) ==
    [code \in DOMAIN volumes |-> total_emissions]

allocate_emissions(total_emissions, volumes) ==
    LET total_volume == SumDict(volumes, DOMAIN volumes)
    IN  [code \in DOMAIN volumes |->
            IF total_volume # Zero
            THEN RMul(RDiv(volumes[code], total_volume), total_emissions)
            ELSE Zero]

\* A slip of calculate_inbound_transport_emissions: the distance is left out
\* of the product.
calculate_inbound_transport_emissions_no_distance(customer_id, facility_id, volume_delivered) ==
    IF <<customer_id, facility_id>> \notin DOMAIN upstream_distance_index
    THEN Zero
    ELSE RMul(volume_delivered,
              Get(transport_emission_factor_index,
                  upstream_distance_index[<<customer_id, facility_id>>]
                      .inbound_mode_of_transport, Zero))

calculate_inbound_transport_emissions(customer_id, facility_id, volume_delivered) ==
    IF <<customer_id, facility_id>> \notin DOMAIN upstream_distance_index
    THEN Zero
    ELSE LET upstream_distance == upstream_distance_index[<<customer_id, facility_id>>]
             emission_factor ==
                 Get(transport_emission_factor_index,
                     upstream_distance.inbound_mode_of_transport, Zero)
         IN  RMul(RMul(volume_delivered, upstream_distance.inbound_average_distance),
                  emission_factor)

get_output_distribution(output_material_code) ==
    Get(output_distribution_index, output_material_code, <<>>)

\* TRUE when get_downstream_distance returns a row (not None).
has_downstream_distance(facility_id, destination_country) ==
    <<facility_id, destination_country>> \in DOMAIN downstream_distance_index

get_downstream_distance(facility_id, destination_country) ==
    downstream_distance_index[<<facility_id, destination_country>>]

\* ------------------------------------------------- calculate_recycling_report
RecyclingReport(invoice, mt, output_volume, processing_emission, inbound_emission, outbound_emission, total_transport_emission, benchmark_emission, destination_country, destination_volume) ==
    [invoice_id |-> invoice.invoice_id,
     customer_id |-> invoice.customer_id,
     delivery_date |-> invoice.delivery_date,
     facility_id |-> invoice.facility_id,
     input_material_code |-> invoice.material_code,
     output_material_code |-> mt.output_material_code,
     category |-> mt.category,
     volume_delivered |-> invoice.volume,
     output_volume |-> output_volume,
     processing_emissions |-> processing_emission,
     inbound_transport_emissions |-> inbound_emission,
     outbound_transport_emissions |-> outbound_emission,
     total_transport_emissions |-> total_transport_emission,
     production_benchmark_emissions |-> benchmark_emission,
     destination_country |-> destination_country,
     destination_volume |-> destination_volume]

\* A slip of destination_report: the branch's processing and inbound emissions
\* are scaled by the destination's share.
destination_report_scaled(invoice, mt, od, output_volume, processing_emission, inbound_emission) ==
    LET destination_volume == RMul(output_volume, od.percentage)
        downstream_distance ==
            get_downstream_distance(invoice.facility_id, od.destination_country)
        outbound_emission ==
            RMul(RMul(destination_volume, downstream_distance.average_distance),
                 Get(transport_emission_factor_index,
                     downstream_distance.mode_of_transport, Zero))
        inbound_share == RMul(inbound_emission, od.percentage)
        benchmark_emission ==
            RMul(Get(virgin_benchmark_index, mt.output_material_code, Zero),
                 destination_volume)
    IN  RecyclingReport(invoice, mt, output_volume,
                        RMul(processing_emission, od.percentage), inbound_share,
                        outbound_emission, RAdd(inbound_share, outbound_emission),
                        benchmark_emission, od.destination_country, destination_volume)

\* A slip of destination_report: the total stays the inbound emission assigned
\* before the category test, the outbound emission is not added.
destination_report_inbound_only(invoice, mt, od, output_volume, processing_emission, inbound_emission) ==
    LET destination_volume == RMul(output_volume, od.percentage)
        downstream_distance ==
            get_downstream_distance(invoice.facility_id, od.destination_country)
        outbound_emission ==
            RMul(RMul(destination_volume, downstream_distance.average_distance),
                 Get(transport_emission_factor_index,
                     downstream_distance.mode_of_transport, Zero))
        benchmark_emission ==
            RMul(Get(virgin_benchmark_index, mt.output_material_code, Zero),
                 destination_volume)
    IN  RecyclingReport(invoice, mt, output_volume, processing_emission,
                        inbound_emission, outbound_emission, inbound_emission,
                        benchmark_emission, od.destination_country, destination_volume)

\* The report of one distribution entry od whose destination has a downstream
\* distance.
destination_report(invoice, mt, od, output_volume, processing_emission, inbound_emission) ==
    LET destination_volume == RMul(output_volume, od.percentage)
        downstream_distance ==
            get_downstream_distance(invoice.facility_id, od.destination_country)
        outbound_emission ==
            RMul(RMul(destination_volume, downstream_distance.average_distance),
                 Get(transport_emission_factor_index,
                     downstream_distance.mode_of_transport, Zero))
        total_transport_emission == RAdd(inbound_emission, outbound_emission)
        benchmark_emission ==
            RMul(Get(virgin_benchmark_index, mt.output_material_code, Zero),
                 destination_volume)
    IN  RecyclingReport(invoice, mt, output_volume, processing_emission,
                        inbound_emission, outbound_emission, total_transport_emission,
                        benchmark_emission, od.destination_country, destination_volume)

\* A slip of the loop over output_distributions: break in place of continue at
\* an entry without a downstream distance.
RECURSIVE recycling_rows_break(_, _, _, _, _, _)
recycling_rows_break(invoice, mt, output_volume, processing_emission, inbound_emission, k) ==
    LET output_distributions == get_output_distribution(mt.output_material_code)
    IN  IF k > Len(output_distributions) THEN <<>>
        ELSE
        LET od == output_distributions[k]
        IN  IF ~has_downstream_distance(invoice.facility_id, od.destination_country)
            THEN <<>>
            ELSE <<[report |-> destination_report(invoice, mt, od, output_volume,
                                   processing_emission, inbound_emission),
                    od |-> k]>>
                 \o recycling_rows_break(invoice, mt, output_volume,
                                         processing_emission, inbound_emission, k + 1)

\* The reports the loop over output_distributions appends from entry k on, each
\* with the position od of its entry; an entry without a downstream distance is
\* passed over (continue).
RECURSIVE recycling_rows(_, _, _, _, _, _)
recycling_rows(invoice, mt, output_volume, processing_emission, inbound_emission, k) ==
    LET output_distributions == get_output_distribution(mt.output_material_code)
    IN  IF k > Len(output_distributions) THEN <<>>
        ELSE
        LET od == output_distributions[k]
            rest == recycling_rows(invoice, mt, output_volume, processing_emission,
                                   inbound_emission, k + 1)
        IN  IF ~has_downstream_distance(invoice.facility_id, od.destination_country)
            THEN rest
            ELSE <<[report |-> destination_report(invoice, mt, od, output_volume,
                                   processing_emission, inbound_emission),
                    od |-> k]>> \o rest

\* A slip of the category test: only Losses is kept out of the geographic
\* fan-out, so that Energy Recycling is fanned out like Material Recycling.
branch_rows_energy_fanout(invoice, mt, volumes, processing_allocated, inbound_allocated) ==
    LET output_volume == volumes[mt.output_material_code]
        processing_emission == processing_allocated[mt.output_material_code]
        inbound_emission == inbound_allocated[mt.output_material_code]
    IN  IF mt.category # "Losses"
        THEN recycling_rows(invoice, mt, output_volume, processing_emission,
                            inbound_emission, 1)
        ELSE <<[report |-> RecyclingReport(invoice, mt, output_volume,
                               processing_emission, inbound_emission, Zero,
                               inbound_emission, Zero, "N/A", output_volume),
                od |-> 0]>>

\* The reports one pass of the loop over transformations appends for mt.
branch_rows(invoice, mt, volumes, processing_allocated, inbound_allocated) ==
    LET output_volume == volumes[mt.output_material_code]
        processing_emission == processing_allocated[mt.output_material_code]
        inbound_emission == inbound_allocated[mt.output_material_code]
        total_transport_emission == inbound_emission
    IN  IF mt.category = "Material Recycling"
        THEN recycling_rows(invoice, mt, output_volume, processing_emission,
                            inbound_emission, 1)
        ELSE <<[report |-> RecyclingReport(invoice, mt, output_volume,
                               processing_emission, inbound_emission, Zero,
                               total_transport_emission, Zero, "N/A", output_volume),
                od |-> 0]>>

\* The reports the loop over transformations appends from rule j on, each with
\* the positions mt and od of its rule and its distribution entry.
RECURSIVE invoice_rows(_, _, _, _, _, _)
invoice_rows(invoice, mts, volumes, processing_allocated, inbound_allocated, j) ==
    IF j > Len(mts) THEN <<>>
    ELSE LET rows == branch_rows(invoice, mts[j], volumes, processing_allocated,
                                 inbound_allocated)
         IN  [n \in 1..Len(rows) |->
                 [report |-> rows[n].report, mt |-> j, od |-> rows[n].od]]
             \o invoice_rows(invoice, mts, volumes, processing_allocated,
                             inbound_allocated, j + 1)

\* The object after __init__ (load_csv, then index_data), no report asked for yet.
Init ==
    /\ material_transformations \in SeqsUpTo(RuleSet, MaxRules)
    /\ output_distribution \in DistTables
    /\ downstream_distances \in DownTables
    /\ material_transformation_index =
           index_material_transformations(material_transformations)
    /\ emission_factor_index = index_emission_factors(EmissionFactorRows)
    /\ transport_emission_factor_index =
           index_transport_emission_factors(TransportEmissionFactorRows)
    /\ upstream_distance_index = index_upstream_distances(UpstreamRows)
    /\ downstream_distance_index = index_downstream_distances(downstream_distances)
    /\ output_distribution_index = index_output_distribution(output_distribution)
    /\ virgin_benchmark_index = index_virgin_benchmarks(VirginBenchmarkRows)
    /\ pc = "idle"
    /\ invoices = <<>>
    /\ reports = <<>>
    /\ origin = <<>>
    /\ transformations = <<>>
    /\ output_volumes = <<>>
    /\ processing_emissions = Zero
    /\ processing_emissions_allocated = <<>>
    /\ inbound_emissions = Zero
    /\ inbound_emissions_allocated = <<>>

\* calculate_recycling_report is entered: reports = [].
Call ==
    /\ pc = "idle"
    /\ pc' = "loop"
    /\ reports' = <<>>
    /\ origin' = <<>>
    /\ UNCHANGED <<refs, indexes, invoices, locals>>

\* A slip of the loop body: output_volumes is created once, outside the loop
\* over invoices, so that the entries of earlier invoices stay in it.
ProcessInvoice_carry(invoice) ==
    /\ pc = "loop"
    /\ Len(invoices) < MaxInvoices
    /\ LET mts == get_material_transformations(invoice.facility_id, invoice.material_code)
           fresh == calculate_output_volumes(invoice.volume, mts)
           volumes == [code \in DOMAIN output_volumes \cup DOMAIN fresh |->
                          IF code \in DOMAIN fresh THEN fresh[code]
                          ELSE output_volumes[code]]
           processing ==
               calculate_processing_emissions(invoice.facility_id, invoice.material_code,
                                              invoice.volume)
           processing_allocated == allocate_emissions(processing, volumes)
           inbound ==
               calculate_inbound_transport_emissions(invoice.customer_id,
                                                     invoice.facility_id, invoice.volume)
           inbound_allocated == allocate_emissions(inbound, volumes)
           rows == invoice_rows(invoice, mts, volumes, processing_allocated,
                                inbound_allocated, 1)
       IN  /\ mts # <<>>
           /\ transformations' = mts
           /\ output_volumes' = volumes
           /\ processing_emissions' = processing
           /\ processing_emissions_allocated' = processing_allocated
           /\ inbound_emissions' = inbound
           /\ inbound_emissions_allocated' = inbound_allocated
           /\ reports' = reports \o [n \in 1..Len(rows) |-> rows[n].report]
           /\ origin' = origin \o [n \in 1..Len(rows) |->
                                      <<Len(invoices) + 1, rows[n].mt, rows[n].od>>]
    /\ invoices' = Append(invoices, invoice)
    /\ UNCHANGED <<refs, indexes, pc>>

\* One pass of the loop over invoices for an invoice that has transformations.
ProcessInvoice(invoice) ==
    /\ pc = "loop"
    /\ Len(invoices) < MaxInvoices
    /\ LET mts == get_material_transformations(invoice.facility_id, invoice.material_code)
           volumes == calculate_output_volumes(invoice.volume, mts)
           processing ==
               calculate_processing_emissions(invoice.facility_id, invoice.material_code,
                                              invoice.volume)
           processing_allocated == allocate_emissions(processing, volumes)
           inbound ==
               calculate_inbound_transport_emissions(invoice.customer_id,
                                                     invoice.facility_id, invoice.volume)
           inbound_allocated == allocate_emissions(inbound, volumes)
           rows == invoice_rows(invoice, mts, volumes, processing_allocated,
                                inbound_allocated, 1)
       IN  /\ mts # <<>>
           /\ transformations' = mts
           /\ output_volumes' = volumes
           /\ processing_emissions' = processing
           /\ processing_emissions_allocated' = processing_allocated
           /\ inbound_emissions' = inbound
           /\ inbound_emissions_allocated' = inbound_allocated
           /\ reports' = reports \o [n \in 1..Len(rows) |-> rows[n].report]
           /\ origin' = origin \o [n \in 1..Len(rows) |->
                                      <<Len(invoices) + 1, rows[n].mt, rows[n].od>>]
    /\ invoices' = Append(invoices, invoice)
    /\ UNCHANGED <<refs, indexes, pc>>

\* One pass of the loop for an invoice without transformations: continue.
SkipInvoice(invoice) ==
    /\ pc = "loop"
    /\ Len(invoices) < MaxInvoices
    /\ get_material_transformations(invoice.facility_id, invoice.material_code) = <<>>
    /\ transformations' = <<>>
    /\ invoices' = Append(invoices, invoice)
    /\ UNCHANGED <<refs, indexes, pc, reports, origin, output_volumes,
                   processing_emissions, processing_emissions_allocated,
                   inbound_emissions, inbound_emissions_allocated>>

\* The list of invoices is exhausted: return reports.
Return ==
    /\ pc = "loop"
    /\ pc' = "done"
    /\ UNCHANGED <<refs, indexes, invoices, reports, origin, locals>>

Next ==
    \/ Call
    \/ \E invoice \in InvoiceSet : ProcessInvoice(invoice)
    \/ \E invoice \in InvoiceSet : SkipInvoice(invoice)
    \/ Return

Spec == Init /\ [][Next]_vars

\* ----------------------------------------------------- vocabulary of the claims
\* The invoice of the pass of the loop that ran last.
invoice_now == invoices[Len(invoices)]

\* The last pass of the loop computed allocations (its invoice had rules).
Allocated == invoices # <<>> /\ transformations # <<>>

RECURSIVE SumSeq(_)
SumSeq(s) == IF s = <<>> THEN Zero ELSE RAdd(Head(s), SumSeq(Tail(s)))

\* A per-output-code mapping read once per rule, the way the loop over
\* transformations reads it: one value per branch.
PerBranch(mapping) ==
    [j \in DOMAIN transformations |-> mapping[transformations[j].output_material_code]]

DistinctOutputCodes ==
    \A i, j \in DOMAIN transformations :
        transformations[i].output_material_code = transformations[j].output_material_code
            => i = j

YieldSum == SumSeq([j \in DOMAIN transformations |-> transformations[j].percentage])

\* processingFactor(facility_id, material_code) read from the table itself.
ProcessingFactor(f, m) ==
    LET hits == {i \in DOMAIN EmissionFactorRows :
                    /\ EmissionFactorRows[i].facility_id = f
                    /\ EmissionFactorRows[i].material_code = m}
    IN  IF hits = {} THEN Zero ELSE EmissionFactorRows[Max(hits)].emission_factor

\* C1 as stated: for every invoice with at least one rule, the allocated
\* processing emissions summed over its branches equal volume * processing
\* factor, and the allocated inbound emissions summed over its branches equal
\* the total of calculate_inbound_transport_emissions, for every set of rules.
C1_AdditivityAnyRules ==
    Allocated =>
        /\ SumSeq(PerBranch(processing_emissions_allocated))
               = RMul(invoice_now.volume,
                      ProcessingFactor(invoice_now.facility_id, invoice_now.material_code))
        /\ SumSeq(PerBranch(inbound_emissions_allocated))
               = calculate_inbound_transport_emissions(invoice_now.customer_id,
                     invoice_now.facility_id, invoice_now.volume)

\* C1 amended: the same sums equal the totals when the rules of the invoice have
\* pairwise distinct output codes and the total output volume is not 0.
C1_AdditivityDistinctNonzero ==
    (/\ Allocated
     /\ DistinctOutputCodes
     /\ SumSeq(PerBranch(output_volumes)) # Zero) =>
        /\ SumSeq(PerBranch(processing_emissions_allocated))
               = RMul(invoice_now.volume,
                      ProcessingFactor(invoice_now.facility_id, invoice_now.material_code))
        /\ SumSeq(PerBranch(inbound_emissions_allocated))
               = calculate_inbound_transport_emissions(invoice_now.customer_id,
                     invoice_now.facility_id, invoice_now.volume)

\* Two branches with distinct codes share non-zero processing and inbound totals.
C1_Witness ==
    /\ Allocated
    /\ Len(transformations) = 2
    /\ DistinctOutputCodes
    /\ SumSeq(PerBranch(output_volumes)) # Zero
    /\ processing_emissions # Zero
    /\ inbound_emissions # Zero
    /\ \A j \in DOMAIN transformations : PerBranch(output_volumes)[j] # Zero

\* C2 as stated: when the yields of the invoice's rules sum to 1, the output
\* volumes of its branches, one per rule, sum to the invoice's volume.
C2_OutputVolumeConserved ==
    (Allocated /\ YieldSum = Rat(1, 1)) =>
        SumSeq(PerBranch(output_volumes)) = invoice_now.volume

\* C2 amended: the same, for rules with pairwise distinct output codes.
C2_OutputVolumeConservedDistinct ==
    (Allocated /\ YieldSum = Rat(1, 1) /\ DistinctOutputCodes) =>
        SumSeq(PerBranch(output_volumes)) = invoice_now.volume

\* Two rules with distinct codes and yields 19/20 and 1/20 were fanned out.
C2_Witness ==
    /\ Allocated
    /\ Len(transformations) = 2
    /\ YieldSum = Rat(1, 1)
    /\ DistinctOutputCodes
    /\ \A j \in DOMAIN transformations : PerBranch(output_volumes)[j] # Zero

\* The entries of the distribution table for an output code, in table order.
DistEntries(code) ==
    LET Same(od) == od.output_material_code = code
    IN  SelectSeq(output_distribution, Same)

\* The downstream distance table has a row for (facility, country).
DistanceConfigured(f, c) ==
    \E i \in DOMAIN downstream_distances :
        /\ downstream_distances[i].facility_id = f
        /\ downstream_distances[i].destination_country = c

\* The positions in reports of the rows appended for rule j of invoice i.
RowsOfBranch(i, j) ==
    {n \in DOMAIN reports : origin[n][1] = i /\ origin[n][2] = j}

RECURSIVE SumDestinationVolume(_)
SumDestinationVolume(rows) ==
    IF rows = {} THEN Zero
    ELSE LET n == CHOOSE x \in rows : TRUE
         IN  RAdd(reports[n].destination_volume, SumDestinationVolume(rows \ {n}))

\* Rule j of the last invoice is a Material Recycling branch whose shares sum
\* to 1 and whose destinations all have a downstream distance.
FullyDistributed(j) ==
    LET mt == transformations[j]
        ods == DistEntries(mt.output_material_code)
    IN  /\ mt.category = "Material Recycling"
        /\ SumSeq([k \in DOMAIN ods |-> ods[k].percentage]) = Rat(1, 1)
        /\ \A k \in DOMAIN ods :
               DistanceConfigured(invoice_now.facility_id, ods[k].destination_country)

\* C3: for a Material Recycling branch whose shares sum to 1 and whose
\* destinations all have a downstream distance for the invoice's facility, the
\* destination volumes of the rows emitted for the branch sum to the branch's
\* output volume.
C3_DestinationVolumeConserved ==
    Allocated =>
        \A j \in DOMAIN transformations :
            FullyDistributed(j) =>
                SumDestinationVolume(RowsOfBranch(Len(invoices), j))
                    = output_volumes[transformations[j].output_material_code]

\* Such a branch with a non-zero output volume was split over two destinations.
C3_Witness ==
    /\ Allocated
    /\ \E j \in DOMAIN transformations :
           /\ FullyDistributed(j)
           /\ Cardinality(RowsOfBranch(Len(invoices), j)) = 2
           /\ output_volumes[transformations[j].output_material_code] # Zero

\* C4: every rule of an invoice whose category is Losses or Energy Recycling
\* has exactly one report row, with destination "N/A", destination volume equal
\* to the output volume, outbound and benchmark emissions 0 and total transport
\* emissions equal to the branch's allocated inbound emissions, whatever the
\* distribution and downstream distance tables hold.
C4_NonRecyclingPassthrough ==
    Allocated =>
        \A j \in DOMAIN transformations :
            transformations[j].category \in {"Losses", "Energy Recycling"} =>
                /\ Cardinality(RowsOfBranch(Len(invoices), j)) = 1
                /\ \A n \in RowsOfBranch(Len(invoices), j) :
                       /\ reports[n].destination_country = "N/A"
                       /\ reports[n].destination_volume = reports[n].output_volume
                       /\ reports[n].output_volume
                              = output_volumes[transformations[j].output_material_code]
                       /\ reports[n].outbound_transport_emissions = Zero
                       /\ reports[n].production_benchmark_emissions = Zero
                       /\ reports[n].total_transport_emissions
                              = inbound_emissions_allocated[
                                    transformations[j].output_material_code]

\* An invoice with a Losses rule and an Energy Recycling rule was processed
\* against a distribution table holding an entry for the Energy Recycling
\* rule's output code, with a non-zero inbound allocation.
C4_Witness ==
    /\ Allocated
    /\ \E j \in DOMAIN transformations : transformations[j].category = "Losses"
    /\ \E j \in DOMAIN transformations :
           /\ transformations[j].category = "Energy Recycling"
           /\ DistEntries(transformations[j].output_material_code) # <<>>
           /\ inbound_emissions_allocated[transformations[j].output_material_code] # Zero

\* The rows of the transformation table that apply to an invoice, in table order.
RulesInTable(inv) ==
    LET Applies(mt) ==
            /\ mt.facility_id = inv.facility_id
            /\ mt.input_material_code = inv.material_code
    IN  SelectSeq(material_transformations, Applies)

\* The positions in reports of the rows appended in pass i of the loop.
RowsOfInvoice(i) == {n \in DOMAIN reports : origin[n][1] = i}

\* How many rows the tables call for: one per non-recycling rule, and per
\* Material Recycling rule one per distribution entry with a configured distance.
RECURSIVE RowsCalledFor(_, _)
RowsCalledFor(inv, rules) ==
    IF rules = <<>> THEN 0
    ELSE LET mt == Head(rules)
             ods == DistEntries(mt.output_material_code)
         IN  (IF mt.category = "Material Recycling"
              THEN Cardinality({k \in DOMAIN ods :
                       DistanceConfigured(inv.facility_id, ods[k].destination_country)})
              ELSE 1)
             + RowsCalledFor(inv, Tail(rules))

\* C5: an invoice whose (facility, material) has no transformation rule is
\* passed over without failure (the loop can take it and goes on), no report row
\* carries its invoice_id, and every other invoice of the batch has the rows
\* the tables call for.
C5_NoRuleSkip ==
    /\ \A i \in DOMAIN invoices :
           IF RulesInTable(invoices[i]) = <<>>
           THEN /\ RowsOfInvoice(i) = {}
                /\ \A n \in DOMAIN reports :
                       reports[n].invoice_id # invoices[i].invoice_id
           ELSE /\ Cardinality(RowsOfInvoice(i))
                       = RowsCalledFor(invoices[i], RulesInTable(invoices[i]))
                /\ \A n \in RowsOfInvoice(i) :
                       reports[n].invoice_id = invoices[i].invoice_id
    /\ (pc = "loop" /\ Len(invoices) < MaxInvoices) =>
           \A inv \in InvoiceSet :
               RulesInTable(inv) = <<>> => ENABLED SkipInvoice(inv)

\* The report was returned for a batch whose first invoice had no rule and
\* whose second invoice has rows.
C5_Witness ==
    /\ pc = "done"
    /\ Len(invoices) = 2
    /\ RulesInTable(invoices[1]) = <<>>
    /\ RowsOfInvoice(2) # {}

\* The downstream distance row of (facility, country) that index_data keeps.
DownstreamRow(f, c) ==
    downstream_distances[Max({i \in DOMAIN downstream_distances :
        /\ downstream_distances[i].facility_id = f
        /\ downstream_distances[i].destination_country = c})]

\* transportFactor(mode) read from the table itself, 0 when absent.
TransportFactor(mode) ==
    LET hits == {i \in DOMAIN TransportEmissionFactorRows :
                    TransportEmissionFactorRows[i].mode_of_transport = mode}
    IN  IF hits = {} THEN Zero
        ELSE TransportEmissionFactorRows[Max(hits)].emission_factor

\* C6: every report row has total transport emissions = inbound + outbound
\* transport emissions, and the outbound emissions of a Material Recycling row
\* are destination_volume * distance_km * transportFactor(mode) of the row's
\* own destination.
C6_TransportConsistency ==
    \A n \in DOMAIN reports :
        /\ reports[n].total_transport_emissions
               = RAdd(reports[n].inbound_transport_emissions,
                      reports[n].outbound_transport_emissions)
        /\ reports[n].category = "Material Recycling" =>
               /\ DistanceConfigured(reports[n].facility_id, reports[n].destination_country)
               /\ LET dd == DownstreamRow(reports[n].facility_id,
                                          reports[n].destination_country)
                  IN  reports[n].outbound_transport_emissions
                          = RMul(RMul(reports[n].destination_volume, dd.average_distance),
                                 TransportFactor(dd.mode_of_transport))

\* The report holds a Material Recycling row with non-zero inbound and outbound
\* emissions and a non-recycling row with non-zero inbound emissions.
C6_Witness ==
    /\ \E n \in DOMAIN reports :
           /\ reports[n].category = "Material Recycling"
           /\ reports[n].inbound_transport_emissions # Zero
           /\ reports[n].outbound_transport_emissions # Zero
    /\ \E n \in DOMAIN reports :
           /\ reports[n].category # "Material Recycling"
           /\ reports[n].inbound_transport_emissions # Zero

\* The invoice has a negative volume, or a rule that applies to it has a yield
\* outside [0, 1].
InvalidInput(inv) ==
    \/ RLess(inv.volume, Zero)
    \/ \E j \in DOMAIN RulesInTable(inv) :
           \/ RLess(RulesInTable(inv)[j].percentage, Zero)
           \/ RLess(Rat(1, 1), RulesInTable(inv)[j].percentage)

\* C7: an invoice with a negative volume, or with a rule whose yield is outside
\* [0, 1], ends in a failure: no report row is computed from it and the call
\* does not return a report as if it had succeeded.
C7_InvalidInputFails ==
    \A i \in DOMAIN invoices :
        InvalidInput(invoices[i]) => (RowsOfInvoice(i) = {} /\ pc # "done")

\* What the caller of calculate_recycling_report can see: the list it returns
\* and the attributes of the NGMetallAPI object.
CallerVisible == <<reports, refs, indexes>>

\* C8: each pass of the loop that skips an invoice for want of a transformation
\* rule leaves a trace in what the caller can see (a count, a record).
C8_SkipObservable ==
    [][(pc = "loop" /\ invoices' # invoices /\ transformations' = <<>>)
           => CallerVisible' # CallerVisible]_vars

\* The positions in reports of the rows appended for entry k of the
\* distribution of rule j of invoice i.
RowsOfEntry(i, j, k) == {n \in RowsOfBranch(i, j) : origin[n][3] = k}

\* C9: in a Material Recycling branch, a distribution entry whose destination
\* has no downstream distance for the invoice's facility has no report row,
\* and every other entry of the branch has exactly one row, for its own
\* destination; the pass of the loop completes all the same.
C9_MissingDistanceSkipsEntry ==
    Allocated =>
        \A j \in DOMAIN transformations :
            transformations[j].category = "Material Recycling" =>
                LET i == Len(invoices)
                    ods == DistEntries(transformations[j].output_material_code)
                IN  /\ \A n \in RowsOfBranch(i, j) : origin[n][3] \in DOMAIN ods
                    /\ \A k \in DOMAIN ods :
                           IF DistanceConfigured(invoice_now.facility_id,
                                                 ods[k].destination_country)
                           THEN /\ Cardinality(RowsOfEntry(i, j, k)) = 1
                                /\ \A n \in RowsOfEntry(i, j, k) :
                                       reports[n].destination_country
                                           = ods[k].destination_country
                           ELSE RowsOfEntry(i, j, k) = {}

\* A Material Recycling branch whose first entry has no downstream distance and
\* whose second entry has one: no row for the first, one row for the second.
C9_Witness ==
    /\ Allocated
    /\ \E j \in DOMAIN transformations :
           LET ods == DistEntries(transformations[j].output_material_code)
           IN  /\ transformations[j].category = "Material Recycling"
               /\ Len(ods) = 2
               /\ ~DistanceConfigured(invoice_now.facility_id, ods[1].destination_country)
               /\ DistanceConfigured(invoice_now.facility_id, ods[2].destination_country)
               /\ RowsOfEntry(Len(invoices), j, 1) = {}
               /\ Cardinality(RowsOfEntry(Len(invoices), j, 2)) = 1

\* <<invoice, rule, entry>> positions in the order of the nested loops.
Before(a, b) ==
    \/ a[1] < b[1]
    \/ a[1] = b[1] /\ a[2] < b[2]
    \/ a[1] = b[1] /\ a[2] = b[2] /\ a[3] < b[3]

\* C10: the report is the concatenation of the invoices' rows in invoice input
\* order; within an invoice the rows follow the order of its rules in the
\* transformation table, and within a Material Recycling branch the order of
\* the output material's entries in the distribution table.
C10_RowOrdering ==
    /\ \A n \in DOMAIN reports :
           LET i == origin[n][1]
               j == origin[n][2]
               k == origin[n][3]
           IN  /\ i \in DOMAIN invoices
               /\ reports[n].invoice_id = invoices[i].invoice_id
               /\ reports[n].volume_delivered = invoices[i].volume
               /\ j \in DOMAIN RulesInTable(invoices[i])
               /\ reports[n].output_material_code
                      = RulesInTable(invoices[i])[j].output_material_code
               /\ reports[n].category = RulesInTable(invoices[i])[j].category
               /\ IF reports[n].category = "Material Recycling"
                  THEN /\ k \in DOMAIN DistEntries(reports[n].output_material_code)
                       /\ reports[n].destination_country
                              = DistEntries(reports[n].output_material_code)[k]
                                    .destination_country
                       /\ reports[n].destination_volume
                              = RMul(reports[n].output_volume,
                                     DistEntries(reports[n].output_material_code)[k]
                                         .percentage)
                  ELSE k = 0
    /\ \A n, m \in DOMAIN reports : n < m => Before(origin[n], origin[m])

\* The returned report holds rows of two invoices, of two rules of one invoice
\* that differ in output code, and of two entries of one branch.
C10_Witness ==
    /\ pc = "done"
    /\ \E n, m \in DOMAIN reports : origin[n][1] # origin[m][1]
    /\ \E n, m \in DOMAIN reports :
           /\ origin[n][1] = origin[m][1]
           /\ origin[n][2] # origin[m][2]
           /\ reports[n].output_material_code # reports[m].output_material_code
    /\ \E n, m \in DOMAIN reports :
           /\ origin[n][1] = origin[m][1]
           /\ origin[n][2] = origin[m][2]
           /\ origin[n][3] # origin[m][3]

\* The rows of reports appended in pass i of the loop, in report order.
ReportOfInvoice(i) ==
    LET at == RowsOfInvoice(i)
    IN  [m \in 1..Cardinality(at) |->
            reports[CHOOSE n \in at : Cardinality({x \in at : x <= n}) = m]]

\* The report of a batch holding the one invoice inv, against the lookup
\* structures as they are now.
ReportAlone(inv) ==
    LET mts == get_material_transformations(inv.facility_id, inv.material_code)
        volumes == calculate_output_volumes(inv.volume, mts)
        processing_allocated ==
            allocate_emissions(
                calculate_processing_emissions(inv.facility_id, inv.material_code,
                                               inv.volume), volumes)
        inbound_allocated ==
            allocate_emissions(
                calculate_inbound_transport_emissions(inv.customer_id, inv.facility_id,
                                                      inv.volume), volumes)
        rows == invoice_rows(inv, mts, volumes, processing_allocated,
                             inbound_allocated, 1)
    IN  IF mts = <<>> THEN <<>>
        ELSE [n \in 1..Len(rows) |-> rows[n].report]

\* Every lookup structure is what index_data built from the tables.
IndexesAsBuilt ==
    /\ material_transformation_index
           = index_material_transformations(material_transformations)
    /\ emission_factor_index = index_emission_factors(EmissionFactorRows)
    /\ transport_emission_factor_index
           = index_transport_emission_factors(TransportEmissionFactorRows)
    /\ upstream_distance_index = index_upstream_distances(UpstreamRows)
    /\ downstream_distance_index = index_downstream_distances(downstream_distances)
    /\ output_distribution_index = index_output_distribution(output_distribution)
    /\ virgin_benchmark_index = index_virgin_benchmarks(VirginBenchmarkRows)

\* C11: in the returned report the rows of an invoice are those of the invoice
\* run alone against the same lookup structures, whatever invoices come before
\* or after it in the batch, and the lookup structures stay as index_data built
\* them all along.
C11_InvoiceIndependence ==
    /\ pc = "done" =>
           \A i \in DOMAIN invoices : ReportOfInvoice(i) = ReportAlone(invoices[i])
    /\ IndexesAsBuilt

\* The report was returned for two different invoices that both have rows and
\* whose rules have different output codes.
C11_Witness ==
    /\ pc = "done"
    /\ Len(invoices) = 2
    /\ invoices[1] # invoices[2]
    /\ RowsOfInvoice(1) # {}
    /\ RowsOfInvoice(2) # {}
    /\ \E n \in RowsOfInvoice(1) : \A m \in RowsOfInvoice(2) :
           reports[n].output_material_code # reports[m].output_material_code

\* The tables and the batch of the worked example: the single rule F001/M001 ->
\* M002 with yield 0.95, Material Recycling; distribution (M002, Norway, 1.0);
\* downstream distance (F001, Norway) = 500 km by Truck; and the fixed tables
\* (processing factor 19.5, upstream distance 500 km by Truck, Truck factor
\* 0.05, benchmark 3056 for M002) with the one invoice INV001 of volume 6000.
WorkedExample ==
    /\ material_transformations
           = <<MaterialTransformation("F001", "M001", "M002", Rat(19, 20),
                                      "Material Recycling")>>
    /\ output_distribution
           = <<EstimatedOutputDistributionGeo("M002", "Norway", Rat(1, 1))>>
    /\ DistanceConfigured("F001", "Norway")
    /\ DownstreamRow("F001", "Norway").average_distance = Rat(500, 1)
    /\ DownstreamRow("F001", "Norway").mode_of_transport = "Truck"
    /\ invoices = <<Invoice("INV001", "Supplier001", "F001", "M001", Rat(6000, 1))>>

\* C12: in the worked example the report is exactly one row, with output
\* volume 5700, processing emissions 117000, inbound transport emissions
\* 150000, destination volume 5700, outbound transport emissions 142500, total
\* transport emissions 292500 and benchmark emissions 17419200.
C12_WorkedExample ==
    WorkedExample =>
        /\ Len(reports) = 1
        /\ reports[1].invoice_id = "INV001"
        /\ reports[1].output_material_code = "M002"
        /\ reports[1].destination_country = "Norway"
        /\ reports[1].output_volume = Rat(5700, 1)
        /\ reports[1].processing_emissions = Rat(117000, 1)
        /\ reports[1].inbound_transport_emissions = Rat(150000, 1)
        /\ reports[1].destination_volume = Rat(5700, 1)
        /\ reports[1].outbound_transport_emissions = Rat(142500, 1)
        /\ reports[1].total_transport_emissions = Rat(292500, 1)
        /\ reports[1].production_benchmark_emissions = Rat(17419200, 1)

\* The report of the worked example was returned.
C12_Witness == WorkedExample /\ pc = "done" /\ reports # <<>>

\* The last rule, in table order, of the invoice's rules with an output code.
LastRuleFor(inv, code) ==
    LET rules == RulesInTable(inv)
    IN  rules[Max({j \in DOMAIN rules : rules[j].output_material_code = code})]

\* C13: when several rules of one (facility, input material) share an output
\* code, output_volumes holds one entry for the code, the invoice's volume
\* times the yield of the last such rule in table order, and every report row
\* of any of those rules reports that volume.
C13_DuplicateCodeOverwrite ==
    Allocated =>
        /\ DOMAIN output_volumes
               = {RulesInTable(invoice_now)[j].output_material_code :
                      j \in DOMAIN RulesInTable(invoice_now)}
        /\ \A code \in DOMAIN output_volumes :
               output_volumes[code]
                   = RMul(invoice_now.volume, LastRuleFor(invoice_now, code).percentage)
        /\ \A n \in RowsOfInvoice(Len(invoices)) :
               reports[n].output_volume
                   = RMul(invoice_now.volume,
                          LastRuleFor(invoice_now, reports[n].output_material_code)
                              .percentage)

\* Two rules with one output code and different yields were processed, and a
\* row of the first of them reports the volume of the second.
C13_Witness ==
    /\ Allocated
    /\ Len(transformations) = 2
    /\ transformations[1].output_material_code = transformations[2].output_material_code
    /\ transformations[1].percentage # transformations[2].percentage
    /\ invoice_now.volume # Zero
    /\ \E n \in RowsOfBranch(Len(invoices), 1) :
           reports[n].output_volume
               = RMul(invoice_now.volume, transformations[2].percentage)

RECURSIVE SumProcessing(_)
SumProcessing(rows) ==
    IF rows = {} THEN Zero
    ELSE LET n == CHOOSE x \in rows : TRUE
         IN  RAdd(reports[n].processing_emissions, SumProcessing(rows \ {n}))

RECURSIVE SumInbound(_)
SumInbound(rows) ==
    IF rows = {} THEN Zero
    ELSE LET n == CHOOSE x \in rows : TRUE
         IN  RAdd(reports[n].inbound_transport_emissions, SumInbound(rows \ {n}))

\* C14: every report row of an invoice carries, for its output code, the
\* branch's whole output volume, processing allocation and inbound allocation,
\* not scaled by the destination share; rows of one invoice and one output code
\* agree on the three; and over the n rows of a Material Recycling branch the
\* processing (inbound) emissions sum to n times the branch's allocation.
C14_AllocationPerBranch ==
    /\ Allocated =>
           /\ \A n \in RowsOfInvoice(Len(invoices)) :
                  /\ reports[n].output_volume
                         = output_volumes[reports[n].output_material_code]
                  /\ reports[n].processing_emissions
                         = processing_emissions_allocated[reports[n].output_material_code]
                  /\ reports[n].inbound_transport_emissions
                         = inbound_emissions_allocated[reports[n].output_material_code]
           /\ \A j \in DOMAIN transformations :
                  transformations[j].category = "Material Recycling" =>
                      LET rows == RowsOfBranch(Len(invoices), j)
                          code == transformations[j].output_material_code
                      IN  /\ SumProcessing(rows)
                                 = RMul(Rat(Cardinality(rows), 1),
                                        processing_emissions_allocated[code])
                          /\ SumInbound(rows)
                                 = RMul(Rat(Cardinality(rows), 1),
                                        inbound_emissions_allocated[code])
    /\ \A n, m \in DOMAIN reports :
           (/\ reports[n].invoice_id = reports[m].invoice_id
            /\ reports[n].output_material_code = reports[m].output_material_code) =>
               /\ reports[n].output_volume = reports[m].output_volume
               /\ reports[n].processing_emissions = reports[m].processing_emissions
               /\ reports[n].inbound_transport_emissions
                      = reports[m].inbound_transport_emissions

\* A Material Recycling branch with non-zero processing and inbound allocations
\* has two destination rows, each for a share below 1.
C14_Witness ==
    /\ Allocated
    /\ \E j \in DOMAIN transformations :
           LET rows == RowsOfBranch(Len(invoices), j)
               code == transformations[j].output_material_code
           IN  /\ transformations[j].category = "Material Recycling"
               /\ Cardinality(rows) = 2
               /\ processing_emissions_allocated[code] # Zero
               /\ inbound_emissions_allocated[code] # Zero
               /\ \A n \in rows :
                      reports[n].destination_volume # reports[n].output_volume

====
